---- MODULE Spec2Model ----
(***************************************************************************)
(* Model of kurobbs_auto_checkin (src/auto_checkin.py): one process run of *)
(* main(): parse_env_vars, KurobbsClient construction, the two sign        *)
(* actions with their HTTP requests (retry, envelope validation), the      *)
(* report and the notification dispatch.                                   *)
(*                                                                         *)
(* The program is single-threaded; the state is the client object's fields *)
(* (results, exceptions), main's locals, the position in the code (pc),    *)
(* the request in flight, and what the outside world has seen: the HTTP    *)
(* attempts (http_log), the log sink (log), the notifications handed to a  *)
(* back-end (notifications) and the process exit code.                     *)
(*                                                                         *)
(* Python strings are TLA+ strings; the program's Chinese literals are     *)
(* written in English with the original next to them.  A formatted or      *)
(* joined string is the sequence of its pieces.                            *)
(***************************************************************************)
EXTENDS Integers, Sequences, FiniteSets, TLC

----------------------------------------------------------------------------
(* Program constants *)

MAX_RETRIES == 3

(* Largest role list the role-list endpoint returns in the model. *)
MaxRoles == 2

NotificationMode == {"wechatWorkApp", "bark", "console"}

API_ENDPOINTS == {"find_role_list", "sign_in", "user_sign", "init_sign_check"}

(* the two actions in the other order *)
sign_actions_reversed ==
    << [name |-> "user_signin", action |-> "perform_user_sign",
        success |-> "user sign-in succeeded", failure |-> "user sign-in failed"],
       [name |-> "daily_checkin", action |-> "perform_checkin",
        success |-> "daily check-in succeeded", failure |-> "daily check-in failed"] >>

(* sign_actions of execute_sign_workflow: (name, action, success, failure) *)
sign_actions ==
    << [name |-> "daily_checkin", action |-> "perform_checkin",
        success |-> "daily check-in succeeded",     \* 每日签到成功
        failure |-> "daily check-in failed"],       \* 每日签到失败
       [name |-> "user_signin", action |-> "perform_user_sign",
        success |-> "user sign-in succeeded",       \* 用户签到成功
        failure |-> "user sign-in failed"] >>       \* 用户签到失败

ALREADY_SIGNED == "already signed in today, nothing to do"  \* 今日已签到，无需重复
FAILURE_NOTICE == "Kurobbs check-in failed"                 \* 库街区签到失败

----------------------------------------------------------------------------
(* Python values *)

NONE == [kind |-> "None"]

(* bool(v) of the Python values the model uses: "True", "False", "None" *)
Truthy(v) == v \notin {"False", "None"}

(* an exception object: type(e).__name__ and the pieces of str(e) *)
Exc(type, text) == [kind |-> "exc", type |-> type, text |-> text]

(* sep.join(parts), parts a sequence of strings *)
RECURSIVE Join(_, _)
Join(parts, sep) ==
    IF Len(parts) = 0 THEN << >>
    ELSE IF Len(parts) = 1 THEN << parts[1] >>
    ELSE << parts[1], sep >> \o Join(Tail(parts), sep)

(* sep.join(pieces), each piece already a sequence of strings *)
RECURSIVE JoinSeqs(_, _)
JoinSeqs(pieces, sep) ==
    IF Len(pieces) = 0 THEN << >>
    ELSE IF Len(pieces) = 1 THEN pieces[1]
    ELSE pieces[1] \o << sep >> \o JoinSeqs(Tail(pieces), sep)

(* a dict kept in insertion order: a sequence of [key, value] *)
HasKey(d, k) == \E i \in 1..Len(d) : d[i].key = k

Get(d, k) == (CHOOSE i \in 1..Len(d) : d[i].key = k)

Lookup(d, k) == d[Get(d, k)].value

(* d[k] = v: a new key goes last, an old key keeps its place *)
Put(d, k, v) ==
    IF HasKey(d, k)
    THEN [i \in 1..Len(d) |-> IF d[i].key = k THEN [key |-> k, value |-> v] ELSE d[i]]
    ELSE Append(d, [key |-> k, value |-> v])

(* list(d.values()) *)
Values(d) == [i \in 1..Len(d) |-> d[i].value]

----------------------------------------------------------------------------
(* The environment of a run and what the remote side can answer *)

UNSET == "<unset>"

(* the value of exit_code while the process has not ended *)
RUNNING == -1

Envs ==
    [TOKEN : {UNSET, "", "tok"},
     DEBUG : {UNSET},
     MODE  : {UNSET, "bark", "console", "email"}]

(* what one requests.post + raise_for_status does: raise one of the        *)
(* requests.exceptions.RequestException subclasses, or hand back a 2xx     *)
(* response                                                                *)
RequestErrors == {"ConnectionError", "Timeout", "HTTPError"}

Codes == {200, 400}
Msgs == {"ok", "rate limited"}
Successes == {"True", "False", "None"}

(* an item of the role list: a role object, or an object GameInfo rejects  *)
(* (a required field missing)                                              *)
Role(r) == [valid |-> TRUE, gameId |-> 3, serverId |-> 9, roleId |-> r, userId |-> 55]
BAD_ITEM == [valid |-> FALSE, gameId |-> 3, serverId |-> 9, roleId |-> 0, userId |-> 0]
RoleItems == {Role(100), BAD_ITEM}

(* data of a role-list answer: null, or a list of up to MaxRoles items *)
RoleListData ==
    {NONE} \cup
    { [kind |-> "list", items |-> s] :
        s \in UNION { [1..n -> RoleItems] : n \in 0..MaxRoles } }

(* data of a status answer: null, a list, or an object with or without isSigIn *)
StatusData ==
    {NONE, [kind |-> "list", items |-> << >>]} \cup
    { [kind |-> "dict", isSigIn |-> v] : v \in {"absent", "True", "False"} }

DataOf(endpoint) ==
    CASE endpoint = "find_role_list" -> RoleListData
      [] endpoint = "init_sign_check" -> StatusData
      [] OTHER -> {NONE}

(* the text of a 2xx response: not JSON, JSON lacking a required field, or *)
(* the envelope {code, msg, success?, data?}                               *)
BodyShapes == {"not_json", "no_code", "no_msg", "envelope"}

Bodies(endpoint) ==
    { [shape |-> sh, code |-> 0, msg |-> "", success |-> "None", data |-> NONE] :
        sh \in BodyShapes \ {"envelope"} }
    \cup
    [shape : {"envelope"}, code : Codes, msg : Msgs, success : Successes,
     data : DataOf(endpoint)]

----------------------------------------------------------------------------
VARIABLES
    env,            \* os.environ of the run
    pc,             \* position in the code
    exit_code,      \* the process exit code once pc = "exit" (RUNNING before)
    token, debug, mode,   \* main's locals after parse_env_vars
    results,        \* client.results (insertion-ordered dict)
    exceptions,     \* client.exceptions
    action_idx,     \* index into sign_actions of execute_sign_workflow's loop
    req,            \* request in flight: [endpoint, use_json, attempt]
    ret,            \* value returned (or exception raised) by the last call
    game_info,      \* perform_checkin's game_info
    http_log,       \* every HTTP attempt made: [endpoint, content_type, ok, answer]
    log,            \* lines of the log sink written by the report and by main
    notifications   \* messages handed to a notification handler

vars == << env, pc, exit_code, token, debug, mode, results, exceptions,
           action_idx, req, ret, game_info, http_log, log, notifications >>

Init ==
    /\ env \in Envs
    /\ pc = "parse_env_vars"
    /\ exit_code = RUNNING
    /\ token = UNSET /\ debug = FALSE /\ mode = UNSET
    /\ results = << >>
    /\ exceptions = << >>
    /\ action_idx = 1
    /\ req = NONE
    /\ ret = NONE
    /\ game_info = NONE
    /\ http_log = << >>
    /\ log = << >>
    /\ notifications = << >>

LogLine(level, text) == [level |-> level, text |-> text]

----------------------------------------------------------------------------
(* parse_env_vars: TOKEN is required (KeyError), MODE must be a            *)
(* NotificationMode (ValueError); either failure logs and sys.exit(1)      *)
ParseError(e) ==
    IF e.TOKEN = UNSET THEN "KeyError"
    ELSE IF (IF e.MODE = UNSET THEN "wechatWorkApp" ELSE e.MODE) \notin NotificationMode
         THEN "ValueError"
         ELSE "ok"

parse_env_vars ==
    /\ pc = "parse_env_vars"
    /\ IF ParseError(env) = "ok"
       THEN /\ token' = env.TOKEN
            /\ debug' = (env.DEBUG = "true")
            /\ mode' = IF env.MODE = UNSET THEN "wechatWorkApp" ELSE env.MODE
            /\ pc' = "client_init"
            /\ UNCHANGED << exit_code, log >>
       ELSE /\ log' = Append(log, LogLine("CRITICAL",
                        IF ParseError(env) = "KeyError"
                        THEN << "missing required environment variable TOKEN" >>
                        ELSE << "environment configuration error: ", "ValueError" >>))
            /\ exit_code' = 1
            /\ pc' = "exit"
            /\ UNCHANGED << token, debug, mode >>
    /\ UNCHANGED << env, results, exceptions, action_idx, req, ret, game_info,
                    http_log, notifications >>

(* a constructor that takes any token *)
client_init_unchecked ==
    /\ pc = "client_init"
    /\ results' = << >>
    /\ exceptions' = << >>
    /\ pc' = "sign_actions"
    /\ UNCHANGED << env, exit_code, log, token, debug, mode, action_idx, req, ret,
                    game_info, http_log, notifications >>

(* KurobbsClient.__init__ called from main: an empty token raises          *)
(* ValueError, which main's `except Exception` turns into exit 1           *)
client_init ==
    /\ pc = "client_init"
    /\ IF token = ""
       THEN /\ log' = Append(log, LogLine("CRITICAL",
                        << "unhandled exception: ", "token must not be empty" >>))
            /\ exit_code' = 1
            /\ pc' = "exit"
            /\ UNCHANGED << results, exceptions >>
       ELSE /\ results' = << >>
            /\ exceptions' = << >>
            /\ pc' = "sign_actions"
            /\ UNCHANGED << exit_code, log >>
    /\ UNCHANGED << env, token, debug, mode, action_idx, req, ret, game_info,
                    http_log, notifications >>

----------------------------------------------------------------------------
(* make_request(endpoint, data, use_json) begins: the request handed to    *)
(* _request_with_retry, Content-Type set from use_json                     *)
Request(endpoint, use_json) ==
    [kind |-> "request", endpoint |-> endpoint, attempt |-> 0,
     content_type |-> IF use_json THEN "application/json"
                      ELSE "application/x-www-form-urlencoded"]

(* the retry test off by one: the last attempt's failure is retried too *)
RetryAllowed_off_by_one(attempt) == attempt < MAX_RETRIES

(* _request_with_retry's `if attempt < MAX_RETRIES - 1`: sleep and retry,  *)
(* otherwise raise RequestException                                        *)
RetryAllowed(attempt) == attempt < MAX_RETRIES - 1

(* str(e) of an exception raised inside a library (requests, pydantic):    *)
(* text the program only passes on                                         *)
StrOf(error) == "<str(e)>"

(* the RequestException raised once the retries are used up:               *)
(* f"请求失败: {str(e)}"                                                    *)
RequestFailed(error) == Exc("RequestException", << "request failed: ", StrOf(error) >>)

(* what the remote side answered with a 2xx body, named by what the caller  *)
(* of the endpoint reads in it: the envelope shape, the role list          *)
(* (response.data), data.isSigIn, response.success                         *)
AnswerOf(endpoint, body) ==
    IF body.shape # "envelope" THEN "invalid"
    ELSE CASE endpoint = "find_role_list" ->
                IF body.data = NONE \/ body.data.items = << >> THEN "no_roles"
                ELSE IF \E i \in 1..Len(body.data.items) : ~body.data.items[i].valid
                     THEN "bad_roles" ELSE "roles"
           [] endpoint = "init_sign_check" ->
                IF body.data.kind # "dict" THEN "malformed"
                ELSE IF body.data.isSigIn = "True" THEN "signed"
                ELSE IF body.data.isSigIn = "False" THEN "not_signed"
                ELSE "no_isSigIn"
           [] OTHER -> IF body.success = "True" THEN "accepted" ELSE "rejected"

(* an HTTP attempt as the remote side sees it; ok: a 2xx response came     *)
(* back, answer: what it said ("error" when the attempt failed)            *)
Attempt(r, ok, answer) ==
    [endpoint |-> r.endpoint, content_type |-> r.content_type, ok |-> ok,
     answer |-> answer]

(* one pass of the loop of _request_with_retry: one HTTP attempt.  The     *)
(* attempt raises (error) or returns a 2xx response with some body.        *)
request_with_retry ==
    /\ pc = "request_with_retry"
    /\ IF req.attempt < MAX_RETRIES
       THEN \/ \E error \in RequestErrors :
                    /\ http_log' = Append(http_log, Attempt(req, FALSE, "error"))
                    /\ IF RetryAllowed(req.attempt)
                       THEN /\ req' = [req EXCEPT !.attempt = @ + 1]
                            /\ UNCHANGED << pc, ret >>
                       ELSE /\ ret' = RequestFailed(error)
                            /\ pc' = "make_request"
                            /\ UNCHANGED req
            \/ \E body \in Bodies(req.endpoint) :
                    /\ http_log' = Append(http_log, Attempt(req, TRUE, AnswerOf(req.endpoint, body)))
                    /\ ret' = [kind |-> "response", body |-> body]
                    /\ pc' = "make_request"
                    /\ UNCHANGED req
       ELSE \* range(MAX_RETRIES) is used up: the function returns None
            /\ ret' = NONE
            /\ pc' = "make_request"
            /\ UNCHANGED << req, http_log >>
    /\ UNCHANGED << env, exit_code, token, debug, mode, results, exceptions,
                    action_idx, game_info, log, notifications >>

(* a validation that accepts any body, required fields defaulted *)
ModelValidateJson_lenient(body) ==
    [kind |-> "ApiResponse", code |-> body.code, msg |-> body.msg,
     success |-> body.success, data |-> body.data]

(* ApiResponse.model_validate_json(response.text): code and msg are        *)
(* required, success and data optional; anything else is a ValidationError *)
ModelValidateJson(body) ==
    IF body.shape = "envelope"
    THEN [kind |-> "ApiResponse", code |-> body.code, msg |-> body.msg,
          success |-> body.success, data |-> body.data]
    ELSE Exc("ValidationException",                     \* f"响应验证失败: {str(e)}"
             << "response validation failed: ", StrOf(body.shape) >>)

(* where make_request returns to *)
Caller(endpoint) ==
    CASE endpoint = "find_role_list" -> "get_user_game_list"
      [] endpoint = "init_sign_check" -> "check_sign_status"
      [] endpoint = "sign_in" -> "handle_sign_action"
      [] endpoint = "user_sign" -> "handle_sign_action"

(* what make_request returns or raises, given what _request_with_retry     *)
(* returned or raised                                                      *)
MakeRequestOutcome(r) ==
    CASE r.kind = "exc" -> r
      [] r.kind = "response" -> ModelValidateJson(r.body)
      [] OTHER -> Exc("AttributeError", << "'NoneType' object has no attribute 'text'" >>)

(* the rest of make_request after _request_with_retry: validation, and     *)
(* `except Exception as e: self.exceptions.append(e); raise`               *)
make_request ==
    /\ pc = "make_request"
    /\ ret' = MakeRequestOutcome(ret)
    /\ exceptions' = IF ret'.kind = "exc" THEN Append(exceptions, ret') ELSE exceptions
    /\ pc' = Caller(req.endpoint)
    /\ req' = NONE
    /\ UNCHANGED << env, exit_code, token, debug, mode, results, action_idx,
                    game_info, http_log, log, notifications >>

----------------------------------------------------------------------------
(* execute_sign_workflow's loop over sign_actions, up to the first HTTP    *)
(* request of the action: _handle_sign_action returns at once when the     *)
(* action's name is already in results, otherwise calls the action;        *)
(* perform_checkin starts with get_user_game_list(3), perform_user_sign    *)
(* with make_request("user_sign").  After the loop: _generate_report.      *)
FirstRequest(action) ==
    IF action = "perform_checkin" THEN Request("find_role_list", TRUE)
    ELSE Request("user_sign", TRUE)

execute_sign_workflow ==
    /\ pc = "sign_actions"
    /\ IF action_idx > Len(sign_actions)
       THEN /\ pc' = "generate_report"
            /\ UNCHANGED << action_idx, req >>
       ELSE IF HasKey(results, sign_actions[action_idx].name)
       THEN /\ action_idx' = action_idx + 1
            /\ UNCHANGED << pc, req >>
       ELSE /\ req' = FirstRequest(sign_actions[action_idx].action)
            /\ pc' = "request_with_retry"
            /\ UNCHANGED action_idx
    /\ UNCHANGED << env, exit_code, token, debug, mode, results, exceptions,
                    ret, game_info, http_log, log, notifications >>

(* get_user_game_list after make_request: falsy data is the empty list,    *)
(* otherwise every item becomes a GameInfo (which rejects a bad item)      *)
GameList(response) ==
    IF response.data = NONE \/ response.data.items = << >>
    THEN [kind |-> "list", items |-> << >>]
    ELSE IF \E i \in 1..Len(response.data.items) : ~response.data.items[i].valid
    THEN Exc("ValidationError", << StrOf("GameInfo") >>)
    ELSE [kind |-> "list", items |-> response.data.items]

(* get_user_game_list: `except Exception as e: self.exceptions.append(e);  *)
(* raise` around the request and the conversion                            *)
get_user_game_list ==
    /\ pc = "get_user_game_list"
    /\ ret' = IF ret.kind = "exc" THEN ret ELSE GameList(ret)
    /\ exceptions' = IF ret'.kind = "exc" THEN Append(exceptions, ret') ELSE exceptions
    /\ pc' = "perform_checkin"
    /\ UNCHANGED << env, exit_code, token, debug, mode, results, action_idx,
                    req, game_info, http_log, log, notifications >>

NoRoleFound == Exc("KurobbsClientException", << "no game role found" >>)  \* 未找到游戏角色信息

(* an empty role list taken as nothing to do: perform_checkin returns None *)
perform_checkin_empty_ok ==
    /\ pc = "perform_checkin"
    /\ IF ret.kind = "exc"
       THEN /\ pc' = "handle_sign_action"
            /\ UNCHANGED << ret, game_info, req >>
       ELSE IF ret.items = << >>
       THEN /\ ret' = NONE
            /\ pc' = "handle_sign_action"
            /\ UNCHANGED << game_info, req >>
       ELSE /\ game_info' = ret.items[1]
            /\ req' = Request("init_sign_check", FALSE)
            /\ ret' = NONE
            /\ pc' = "request_with_retry"
    /\ UNCHANGED << env, exit_code, token, debug, mode, results, exceptions,
                    action_idx, http_log, log, notifications >>

(* perform_checkin from the return of get_user_game_list to the status     *)
(* request: an exception propagates, an empty list raises, otherwise the   *)
(* first role is taken and check_sign_status asks the status endpoint      *)
(* (form-encoded)                                                          *)
perform_checkin ==
    /\ pc = "perform_checkin"
    /\ IF ret.kind = "exc"
       THEN /\ pc' = "handle_sign_action"
            /\ UNCHANGED << ret, game_info, req >>
       ELSE IF ret.items = << >>
       THEN /\ ret' = NoRoleFound
            /\ pc' = "handle_sign_action"
            /\ UNCHANGED << game_info, req >>
       ELSE /\ game_info' = ret.items[1]
            /\ req' = Request("init_sign_check", FALSE)
            /\ ret' = NONE
            /\ pc' = "request_with_retry"
    /\ UNCHANGED << env, exit_code, token, debug, mode, results, exceptions,
                    action_idx, http_log, log, notifications >>

InvalidStructure == Exc("ValidationException", << "invalid response data structure" >>)  \* 无效的响应数据结构

(* the body of check_sign_status's try, given make_request's outcome: the  *)
(* exception it ends in, or the value of response.data.get("isSigIn", False) *)
SignStatus(r) ==
    IF r.kind = "exc" THEN r
    ELSE IF r.data.kind # "dict" THEN InvalidStructure
    ELSE [kind |-> "value",
          value |-> IF r.data.isSigIn = "absent" THEN "False" ELSE r.data.isSigIn]

(* check_sign_status without its except clause: the exception gets out *)
CheckSignStatusResult_raise(r) == SignStatus(r)

(* what check_sign_status returns: `except Exception` returns False *)
CheckSignStatusResult(r) ==
    IF SignStatus(r).kind = "exc" THEN [kind |-> "value", value |-> "False"]
    ELSE SignStatus(r)

(* what check_sign_status leaves in self.exceptions: its except clause     *)
(* appends the exception it caught                                         *)
CheckSignStatusErrors(excs, r) ==
    IF SignStatus(r).kind = "exc" THEN Append(excs, SignStatus(r)) ELSE excs

(* check_sign_status after make_request *)
check_sign_status ==
    /\ pc = "check_sign_status"
    /\ ret' = CheckSignStatusResult(ret)
    /\ exceptions' = CheckSignStatusErrors(exceptions, ret)
    /\ pc' = "perform_checkin_status"
    /\ UNCHANGED << env, exit_code, token, debug, mode, results, action_idx,
                    req, game_info, http_log, log, notifications >>

(* perform_checkin after check_sign_status: already signed in records the  *)
(* result and returns None; otherwise the check-in request is made         *)
perform_checkin_status ==
    /\ pc = "perform_checkin_status"
    /\ IF Truthy(ret.value)
       THEN /\ results' = Put(results, "daily_checkin", ALREADY_SIGNED)
            /\ ret' = NONE
            /\ pc' = "handle_sign_action"
            /\ UNCHANGED req
       ELSE /\ req' = Request("sign_in", TRUE)
            /\ ret' = NONE
            /\ pc' = "request_with_retry"
            /\ UNCHANGED results
    /\ UNCHANGED << env, exit_code, token, debug, mode, exceptions, action_idx,
                    game_info, http_log, log, notifications >>

(* the failure text without the upstream msg and code *)
ActionFailed_no_detail(failure_msg, response) ==
    Exc("KurobbsClientException", << failure_msg >>)

(* the exception _handle_sign_action raises for a response whose success   *)
(* is not true: f"{failure_msg}: {response.msg} (code: {response.code})"   *)
ActionFailed(failure_msg, response) ==
    Exc("KurobbsClientException",
        << failure_msg, ": ", response.msg, " (code: ", ToString(response.code), ")" >>)

(* success judged by the envelope's code instead of its success field *)
ActionError_by_code(a, r) ==
    IF r.kind = "exc" THEN r
    ELSE IF r = NONE THEN NONE
    ELSE IF r.code = 200 THEN NONE
    ELSE ActionFailed(a.failure, r)

(* the exception _handle_sign_action's try ends in, or NONE *)
ActionError(a, r) ==
    IF r.kind = "exc" THEN r
    ELSE IF r = NONE THEN NONE
    ELSE IF Truthy(r.success) THEN NONE
    ELSE ActionFailed(a.failure, r)

(* a None return treated like a successful response *)
ActionResults_overwrite(res, a, r) ==
    IF ActionError(a, r) # NONE THEN Put(res, a.name, a.failure)
    ELSE Put(res, a.name, a.success)

(* self.results after _handle_sign_action got r from the action *)
ActionResults(res, a, r) ==
    IF ActionError(a, r) # NONE THEN Put(res, a.name, a.failure)
    ELSE IF r = NONE THEN res
    ELSE Put(res, a.name, a.success)

(* _handle_sign_action without its try/except: an exception of the action *)
(* leaves the loop and reaches main                                        *)
handle_sign_action_abort ==
    /\ pc = "handle_sign_action"
    /\ IF ActionError(sign_actions[action_idx], ret) # NONE
       THEN /\ ret' = ActionError(sign_actions[action_idx], ret)
            /\ pc' = "main_except"
            /\ UNCHANGED << results, exceptions, action_idx >>
       ELSE /\ results' = ActionResults(results, sign_actions[action_idx], ret)
            /\ ret' = NONE
            /\ action_idx' = action_idx + 1
            /\ pc' = "sign_actions"
            /\ UNCHANGED exceptions
    /\ UNCHANGED << env, exit_code, token, debug, mode, req, game_info,
                    http_log, log, notifications >>

(* an except clause that records the error but no outcome for the action *)
handle_sign_action_unrecorded ==
    /\ pc = "handle_sign_action"
    /\ results' = IF ActionError(sign_actions[action_idx], ret) # NONE THEN results
                  ELSE ActionResults(results, sign_actions[action_idx], ret)
    /\ exceptions' = IF ActionError(sign_actions[action_idx], ret) # NONE
                     THEN Append(exceptions, ActionError(sign_actions[action_idx], ret))
                     ELSE exceptions
    /\ ret' = NONE
    /\ action_idx' = action_idx + 1
    /\ pc' = "sign_actions"
    /\ UNCHANGED << env, exit_code, token, debug, mode, req, game_info,
                    http_log, log, notifications >>

(* _handle_sign_action once the action has returned or raised *)
handle_sign_action ==
    /\ pc = "handle_sign_action"
    /\ results' = ActionResults(results, sign_actions[action_idx], ret)
    /\ exceptions' = IF ActionError(sign_actions[action_idx], ret) # NONE
                     THEN Append(exceptions, ActionError(sign_actions[action_idx], ret))
                     ELSE exceptions
    /\ ret' = NONE
    /\ action_idx' = action_idx + 1
    /\ pc' = "sign_actions"
    /\ UNCHANGED << env, exit_code, token, debug, mode, req, game_info,
                    http_log, log, notifications >>

----------------------------------------------------------------------------
(* the summary joined last result first *)
Summary_reversed(res) ==
    Join([i \in 1..Len(res) |-> res[Len(res) + 1 - i].value], ", ")

(* ", ".join(self.results.values()) *)
Summary(res) == Join(Values(res), ", ")

(* the line _generate_report logs: "签到结果: " + summary *)
ReportLine(res) == LogLine("INFO", << "check-in results: " >> \o Summary(res))

(* the aggregate _generate_report raises: f"遇到{n}个错误:\n" and one line  *)
(* f"{i+1}. {type(e).__name__}: {str(e)}" per recorded exception           *)
ErrorDetails(excs) ==
    JoinSeqs([i \in 1..Len(excs) |->
                << ToString(i), ". ", excs[i].type, ": " >> \o excs[i].text], "\n")

AggregateError(excs) ==
    Exc("KurobbsClientException",
        << "encountered ", ToString(Len(excs)), " errors:\n" >> \o ErrorDetails(excs))

(* a report that logs the summary but never raises *)
generate_report_no_raise ==
    /\ pc = "generate_report"
    /\ log' = IF results # << >> THEN Append(log, ReportLine(results)) ELSE log
    /\ ret' = NONE
    /\ pc' = "main_notify"
    /\ UNCHANGED << env, exit_code, token, debug, mode, results, exceptions,
                    action_idx, req, game_info, http_log, notifications >>

(* a report that raises the aggregate before logging the summary *)
generate_report_raise_first ==
    /\ pc = "generate_report"
    /\ IF exceptions # << >>
       THEN /\ ret' = AggregateError(exceptions)
            /\ pc' = "main_except"
            /\ UNCHANGED log
       ELSE /\ log' = IF results # << >> THEN Append(log, ReportLine(results)) ELSE log
            /\ ret' = NONE
            /\ pc' = "main_notify"
    /\ UNCHANGED << env, exit_code, token, debug, mode, results, exceptions,
                    action_idx, req, game_info, http_log, notifications >>

(* _generate_report: log the summary when there are results, raise the     *)
(* aggregate when there are exceptions (caught by main)                    *)
generate_report ==
    /\ pc = "generate_report"
    /\ log' = IF results # << >> THEN Append(log, ReportLine(results)) ELSE log
    /\ IF exceptions # << >>
       THEN /\ ret' = AggregateError(exceptions)
            /\ pc' = "main_except"
       ELSE /\ ret' = NONE
            /\ pc' = "main_notify"
    /\ UNCHANGED << env, exit_code, token, debug, mode, results, exceptions,
                    action_idx, req, game_info, http_log, notifications >>

(* notification_message: f"{today} 签到结果: {summary}" *)
notification_message(res) == << "%Y-%m-%d", " check-in results: " >> \o Summary(res)

(* send_wechat_work_notification: returns without sending when its         *)
(* configuration is missing or the access token cannot be had; every       *)
(* failure is logged inside, nothing is raised                             *)
send_wechat_work_notification == {"skipped", "token_failed", "send_failed", "delivered"}

(* send_bark_notification: delivers, fails, or raises *)
send_bark_notification == {"delivered", "failed", "raised"}

(* the console handler: logger.info(msg) *)
console_handler == {"logged"}

notification_handlers(m) ==
    CASE m = "bark" -> send_bark_notification
      [] m = "wechatWorkApp" -> send_wechat_work_notification
      [] m = "console" -> console_handler
      [] OTHER -> {}

(* what a handler call writes to the log *)
HandlerLog(lg, m, message, outcome) ==
    CASE outcome = "logged" -> Append(lg, LogLine("INFO", message))
      [] outcome = "raised" -> Append(lg, LogLine("ERROR", << "notification failed: ", StrOf(m) >>))
      [] outcome = "skipped" -> Append(lg, LogLine("WARNING", << "wechat work configuration missing" >>))
      [] outcome \in {"token_failed", "send_failed"} -> Append(lg, LogLine("ERROR", << outcome >>))
      [] outcome = "delivered" /\ m = "wechatWorkApp" ->
            Append(lg, LogLine("INFO", << "wechat work message pushed" >>))
      [] OTHER -> lg

(* send_notification(message, mode), lg the log before the call: the       *)
(* mode's handler is called once; an exception of the handler is logged    *)
(* and swallowed; a mode without handler is logged                         *)
send_notification(message, m, lg) ==
    IF notification_handlers(m) # {}
    THEN \E outcome \in notification_handlers(m) :
            /\ notifications' = Append(notifications,
                    [message |-> message, mode |-> m, outcome |-> outcome])
            /\ log' = HandlerLog(lg, m, message, outcome)
    ELSE /\ log' = Append(lg, LogLine("ERROR", << "unsupported notification mode: ", m >>))
         /\ UNCHANGED notifications

(* a dispatch whose failure reaches main: a handler that does not deliver  *)
(* makes the process exit 1                                                *)
main_notify_escalate ==
    /\ pc = "main_notify"
    /\ \E outcome \in notification_handlers(mode) :
            /\ notifications' = Append(notifications,
                    [message |-> notification_message(results), mode |-> mode,
                     outcome |-> outcome])
            /\ log' = HandlerLog(log, mode, notification_message(results), outcome)
            /\ exit_code' = IF outcome \in {"delivered", "logged"} THEN 0 ELSE 1
    /\ pc' = "exit"
    /\ UNCHANGED << env, token, debug, mode, results, exceptions, action_idx,
                    req, ret, game_info, http_log >>

(* main after execute_sign_workflow returned: notify when there are        *)
(* results, then the process ends with exit code 0                         *)
main_notify ==
    /\ pc = "main_notify"
    /\ IF results # << >>
       THEN send_notification(notification_message(results), mode, log)
       ELSE UNCHANGED << notifications, log >>
    /\ exit_code' = 0
    /\ pc' = "exit"
    /\ UNCHANGED << env, token, debug, mode, results, exceptions, action_idx,
                    req, ret, game_info, http_log >>

(* the except branch sending the run's summary instead of the fixed notice *)
main_except_summary ==
    /\ pc = "main_except"
    /\ send_notification(notification_message(results), mode,
            Append(log, LogLine("ERROR", << "check-in workflow failed: " >> \o ret.text)))
    /\ exit_code' = 1
    /\ pc' = "exit"
    /\ UNCHANGED << env, token, debug, mode, results, exceptions, action_idx,
                    req, ret, game_info, http_log >>

(* an except branch that logs and exits without sending the notice *)
main_except_silent ==
    /\ pc = "main_except"
    /\ log' = Append(log, LogLine("ERROR", << "check-in workflow failed: " >> \o ret.text))
    /\ exit_code' = 1
    /\ pc' = "exit"
    /\ UNCHANGED << env, token, debug, mode, results, exceptions, action_idx,
                    req, ret, game_info, http_log, notifications >>

(* main's `except KurobbsClientException`: log the error, send the fixed   *)
(* failure notice, sys.exit(1)                                             *)
main_except ==
    /\ pc = "main_except"
    /\ send_notification(<< FAILURE_NOTICE >>, mode,
            Append(log, LogLine("ERROR", << "check-in workflow failed: " >> \o ret.text)))
    /\ exit_code' = 1
    /\ pc' = "exit"
    /\ UNCHANGED << env, token, debug, mode, results, exceptions, action_idx,
                    req, ret, game_info, http_log >>

Next ==
    \/ parse_env_vars
    \/ client_init
    \/ execute_sign_workflow
    \/ request_with_retry
    \/ make_request
    \/ get_user_game_list
    \/ perform_checkin
    \/ check_sign_status
    \/ perform_checkin_status
    \/ handle_sign_action
    \/ generate_report
    \/ main_notify
    \/ main_except

Spec == Init /\ [][Next]_vars

(* The steps the program is bound to take.  The process is sequential and  *)
(* every step of the workflow returns: requests.post is called with        *)
(* timeout=DEFAULT_TIMEOUT and the retry loop sleeps a fixed time.  The    *)
(* dispatch returns for the console handler (a log call) and for bark;     *)
(* send_wechat_work_notification calls requests.get and requests.post      *)
(* without a timeout, so its call is a step that may never complete.       *)
Workflow ==
    \/ parse_env_vars
    \/ client_init
    \/ execute_sign_workflow
    \/ request_with_retry
    \/ make_request
    \/ get_user_game_list
    \/ perform_checkin
    \/ check_sign_status
    \/ perform_checkin_status
    \/ handle_sign_action
    \/ generate_report

Dispatch == main_notify \/ main_except

HandlerReturns == mode # "wechatWorkApp"

(* every step moves pc, the loop index or the record of attempts *)
position == << pc, action_idx, http_log >>

FairSpec ==
    /\ Spec
    /\ WF_position(Workflow)
    /\ WF_position(Dispatch /\ HandlerReturns)

----------------------------------------------------------------------------
(* What the remote side has seen *)

(* the HTTP attempts made against an endpoint, in order.  Each endpoint is *)
(* the target of at most one make_request call per run, so these are the   *)
(* attempts of one request.                                                *)
AttemptsOf(endpoint) == SelectSeq(http_log, LAMBDA a : a.endpoint = endpoint)

Contains(text, piece) == \E i \in 1..Len(text) : text[i] = piece

----------------------------------------------------------------------------
(* C1: a request makes at most 3 HTTP attempts; when _request_with_retry   *)
(* hands over to make_request after two failed attempts and a successful   *)
(* third, it hands over that response and no exception; after three failed *)
(* attempts it hands over a RequestException; it never ends otherwise.     *)
C1_RetryBudget ==
    /\ \A ep \in API_ENDPOINTS : Len(AttemptsOf(ep)) <= 3
    /\ pc = "make_request" =>
         LET a == AttemptsOf(req.endpoint) IN
         /\ Len(a) >= 1
         /\ \A i \in 1..(Len(a) - 1) : ~a[i].ok
         /\ (Len(a) = 3 /\ ~a[1].ok /\ ~a[2].ok /\ a[3].ok) => ret.kind = "response"
         /\ a[Len(a)].ok => ret.kind = "response"
         /\ (Len(a) = 3 /\ \A i \in 1..3 : ~a[i].ok)
                => (ret.kind = "exc" /\ ret.type = "RequestException")
         /\ ~a[Len(a)].ok => (Len(a) = 3 /\ ret.kind = "exc")

(* two failed attempts, then the third succeeds and its response is returned *)
C1_Witness ==
    /\ pc = "make_request"
    /\ Len(AttemptsOf(req.endpoint)) = 3
    /\ AttemptsOf(req.endpoint)[3].ok
    /\ ret.kind = "response"

(* all three attempts failed and the RequestException is raised *)
C1_WitnessExhausted ==
    /\ pc = "make_request"
    /\ Len(AttemptsOf(req.endpoint)) = 3
    /\ ~AttemptsOf(req.endpoint)[3].ok
    /\ ret.kind = "exc"

----------------------------------------------------------------------------
(* C2: a 2xx response whose body is not the envelope makes make_request    *)
(* raise ValidationException (recorded once by make_request) without any   *)
(* further HTTP attempt: the step makes none, a request that has returned  *)
(* gets no attempt afterwards, and a request has at most one successful    *)
(* attempt, its last.                                                      *)
C2_ValidationStep ==
    (pc = "make_request" /\ ret.kind = "response" /\ ret.body.shape # "envelope")
        => /\ ret'.kind = "exc"
           /\ ret'.type = "ValidationException"
           /\ exceptions' = Append(exceptions, ret')
           /\ http_log' = http_log
           /\ pc' = Caller(req.endpoint)

C2_ReturnedIsFinal ==
    \A ep \in API_ENDPOINTS :
        (Len(AttemptsOf(ep)) > 0 /\ (req = NONE \/ req.endpoint # ep))
            => Len(SelectSeq(http_log', LAMBDA a : a.endpoint = ep)) = Len(AttemptsOf(ep))

C2_OneSuccess ==
    \A ep \in API_ENDPOINTS :
        \A i \in 1..Len(AttemptsOf(ep)) : AttemptsOf(ep)[i].ok => i = Len(AttemptsOf(ep))

C2_ValidationNotRetried ==
    /\ [][C2_ValidationStep /\ C2_ReturnedIsFinal]_vars
    /\ []C2_OneSuccess

(* make_request has just raised ValidationException after a 2xx attempt *)
C2_Witness ==
    /\ pc \in {"get_user_game_list", "check_sign_status", "handle_sign_action"}
    /\ ret.kind = "exc"
    /\ ret.type = "ValidationException"
    /\ http_log[Len(http_log)].ok
    /\ Len(AttemptsOf(http_log[Len(http_log)].endpoint)) = 2

----------------------------------------------------------------------------
(* the outcome recorded for an action, "" when none is recorded *)
ResultOf(name) == IF HasKey(results, name) THEN Lookup(results, name) ELSE ""

(* the client has been constructed and both actions are over *)
WorkflowOver == pc \in {"generate_report", "main_notify", "main_except"}
                \/ (pc = "exit" /\ token \notin {UNSET, ""})

(* C3: in a run with a non-empty token the community sign-in request is    *)
(* issued whatever the daily check-in did: once the loop is over the       *)
(* user_sign endpoint has been asked and user_signin has an outcome; the   *)
(* request comes after the daily action has its outcome and after every    *)
(* attempt on the other endpoints; and a failed daily check-in has left an *)
(* error in the error list.                                                *)
C3_SiblingStillRuns ==
    /\ WorkflowOver => /\ Len(AttemptsOf("user_sign")) >= 1
                       /\ HasKey(results, "user_signin")
    /\ Len(AttemptsOf("user_sign")) >= 1 => HasKey(results, "daily_checkin")
    /\ \A i, j \in 1..Len(http_log) :
            (http_log[i].endpoint = "user_sign" /\ http_log[j].endpoint # "user_sign")
                => j < i
    /\ ResultOf("daily_checkin") = sign_actions[1].failure => Len(exceptions) >= 1

(* the daily check-in failed and the community sign-in went through *)
C3_Witness ==
    /\ pc = "exit"
    /\ ResultOf("daily_checkin") = sign_actions[1].failure
    /\ ResultOf("user_signin") = sign_actions[2].success
    /\ Len(AttemptsOf("user_sign")) >= 1

----------------------------------------------------------------------------
(* C4: when the status answer carries isSigIn true, check_sign_status      *)
(* returns true; perform_checkin then records "already signed in today"    *)
(* under daily_checkin without any request; that outcome is never          *)
(* replaced; no attempt on the check-in endpoint exists in such a run; and *)
(* the community endpoint is asked before the run ends.                    *)
C4_StatusTrue ==
    (pc = "check_sign_status" /\ ret.kind = "ApiResponse"
        /\ ret.data.kind = "dict" /\ ret.data.isSigIn = "True")
        => (ret'.kind = "value" /\ ret'.value = "True" /\ pc' = "perform_checkin_status")

C4_ShortCircuit ==
    (pc = "perform_checkin_status" /\ ret.value = "True")
        => /\ HasKey(results', "daily_checkin")
           /\ Lookup(results', "daily_checkin") = ALREADY_SIGNED
           /\ http_log' = http_log
           /\ pc' = "handle_sign_action"

C4_Kept ==
    ResultOf("daily_checkin") = ALREADY_SIGNED
        => (HasKey(results', "daily_checkin")
            /\ Lookup(results', "daily_checkin") = ALREADY_SIGNED)

C4_NoCheckinRequest ==
    ResultOf("daily_checkin") = ALREADY_SIGNED
        => /\ Len(AttemptsOf("sign_in")) = 0
           /\ WorkflowOver => Len(AttemptsOf("user_sign")) >= 1

C4_AlreadySignedIn ==
    /\ [][C4_StatusTrue /\ C4_ShortCircuit /\ C4_Kept]_vars
    /\ []C4_NoCheckinRequest

(* a run that found the role already signed in and has ended *)
C4_Witness ==
    /\ pc = "exit"
    /\ ResultOf("daily_checkin") = ALREADY_SIGNED
    /\ Len(AttemptsOf("init_sign_check")) >= 1
    /\ Len(AttemptsOf("user_sign")) >= 1

----------------------------------------------------------------------------
(* C5: when an action's endpoint answers with an envelope whose success is *)
(* not true, _handle_sign_action records the action's failure string and   *)
(* appends one error whose text is the failure string with the upstream    *)
(* msg and code; recorded errors are never removed; and the aggregate      *)
(* raised by the report carries every piece of every recorded error's      *)
(* text, so a run with a recorded error never takes the success path.      *)
C5_RejectedStep ==
    (pc = "handle_sign_action" /\ ret.kind = "ApiResponse" /\ ret.success # "True")
        => /\ HasKey(results', sign_actions[action_idx].name)
           /\ Lookup(results', sign_actions[action_idx].name)
                = sign_actions[action_idx].failure
           /\ Len(exceptions') = Len(exceptions) + 1
           /\ exceptions'[Len(exceptions')].text[1] = sign_actions[action_idx].failure
           /\ Contains(exceptions'[Len(exceptions')].text, ret.msg)
           /\ Contains(exceptions'[Len(exceptions')].text, ToString(ret.code))

C5_ErrorsKept ==
    /\ Len(exceptions') >= Len(exceptions)
    /\ SubSeq(exceptions', 1, Len(exceptions)) = exceptions

C5_AggregateCarries ==
    /\ pc = "main_notify" => exceptions = << >>
    /\ pc = "main_except" =>
         /\ ret.kind = "exc" /\ ret.type = "KurobbsClientException"
         /\ Len(exceptions) >= 1
         /\ \A i \in 1..Len(exceptions) :
                \A j \in 1..Len(exceptions[i].text) :
                    Contains(ret.text, exceptions[i].text[j])

C5_FailureRecorded ==
    /\ [][C5_RejectedStep /\ C5_ErrorsKept]_vars
    /\ []C5_AggregateCarries

(* the community sign-in was rejected with msg "rate limited", code 400,   *)
(* and the aggregate names both                                            *)
C5_Witness ==
    /\ pc = "main_except"
    /\ ResultOf("user_signin") = sign_actions[2].failure
    /\ exceptions[Len(exceptions)].text =
            << sign_actions[2].failure, ": ", "rate limited", " (code: ", "400", ")" >>
    /\ Contains(ret.text, "rate limited")
    /\ Contains(ret.text, "400")

----------------------------------------------------------------------------
(* the daily check-in succeeded and the community sign-in endpoint         *)
(* answered with success not true, the only error of the run               *)
CommunityRejected ==
    /\ ResultOf("daily_checkin") = sign_actions[1].success
    /\ ResultOf("user_signin") = sign_actions[2].failure
    /\ Len(exceptions) = 1
    /\ exceptions[1].text[1] = sign_actions[2].failure

(* C6 as claimed: in such a run the process exits 1 and the notification   *)
(* attempted carries the partial summary of the run (the joined            *)
(* per-action results).                                                    *)
C6_NotificationMirrorsSummary ==
    (pc = "exit" /\ CommunityRejected)
        => /\ exit_code = 1
           /\ Len(notifications) = 1
           /\ notifications[1].message = notification_message(results)

(* C6 amended: in such a run the aggregate is raised, the process exits 1, *)
(* the partial summary is logged by the report, and the one notification   *)
(* attempted carries the fixed failure notice, not the summary.            *)
C6_FailureNoticeSent ==
    /\ (pc = "main_except" /\ CommunityRejected)
          => (ret.kind = "exc" /\ Contains(ret.text, exceptions[1].text[3]))
    /\ (pc = "exit" /\ CommunityRejected)
          => /\ exit_code = 1
             /\ Len(notifications) = 1
             /\ notifications[1].message = << FAILURE_NOTICE >>
             /\ notifications[1].mode = mode
             /\ \E i \in 1..Len(log) : log[i] = ReportLine(results)

(* the run of the scenario has ended: daily check-in done, community       *)
(* sign-in rejected with "rate limited" / 400, notification handed over    *)
C6_Witness ==
    /\ pc = "exit"
    /\ CommunityRejected
    /\ exceptions[1].text[3] = "rate limited"
    /\ exceptions[1].text[5] = "400"
    /\ Len(notifications) = 1

----------------------------------------------------------------------------
(* How a finished run went *)

(* TOKEN missing, or MODE not a NotificationMode *)
EnvInvalid == env.TOKEN = UNSET \/ (env.MODE # UNSET /\ env.MODE \notin NotificationMode)

ClientBuilt == token \notin {UNSET, ""}

DailyOk == ResultOf("daily_checkin") \in {sign_actions[1].success, ALREADY_SIGNED}
DailyFailed == ResultOf("daily_checkin") = sign_actions[1].failure
UserOk == ResultOf("user_signin") = sign_actions[2].success
UserFailed == ResultOf("user_signin") = sign_actions[2].failure

FullSuccess == DailyOk /\ UserOk
PartialFailure == (DailyOk /\ UserFailed) \/ (DailyFailed /\ UserOk)
WorkflowFailure == DailyFailed /\ UserFailed

(* C7 as claimed: exit code 0 on full success and on partial failure with  *)
(* a notification attempted; 1 on workflow failure, on an unhandled        *)
(* exception (the empty token), on missing or invalid configuration.       *)
C7_ExitCodesAsClaimed ==
    pc = "exit" =>
        /\ (ClientBuilt /\ FullSuccess) => exit_code = 0
        /\ (ClientBuilt /\ PartialFailure /\ Len(notifications) >= 1) => exit_code = 0
        /\ (ClientBuilt /\ WorkflowFailure) => exit_code = 1
        /\ (~EnvInvalid /\ env.TOKEN = "") => exit_code = 1
        /\ EnvInvalid => exit_code = 1

(* C7 amended: the exit code is 0 exactly when the client was built and no *)
(* error was recorded during the run, which is a full success with its     *)
(* summary handed to the notifier; a partial failure exits 1 with a        *)
(* notification attempted; a workflow failure, the empty token and a       *)
(* missing or invalid configuration exit 1.                                *)
C7_ExitCodes ==
    pc = "exit" =>
        /\ exit_code \in {0, 1}
        /\ exit_code = 0 <=> (ClientBuilt /\ exceptions = << >>)
        /\ exit_code = 0 =>
              /\ FullSuccess
              /\ Len(notifications) = 1
              /\ notifications[1].message = notification_message(results)
        /\ (ClientBuilt /\ PartialFailure) => (exit_code = 1 /\ Len(notifications) = 1)
        /\ (ClientBuilt /\ WorkflowFailure) => exit_code = 1
        /\ (~EnvInvalid /\ env.TOKEN = "") => exit_code = 1
        /\ EnvInvalid => exit_code = 1

(* a partial failure: one action succeeded, the other failed, a            *)
(* notification was attempted and the process exited 1                     *)
C7_Witness ==
    /\ pc = "exit"
    /\ ClientBuilt
    /\ PartialFailure
    /\ Len(notifications) = 1
    /\ exit_code = 1

(* a full success exiting 0 *)
C7_WitnessSuccess ==
    /\ pc = "exit"
    /\ ClientBuilt
    /\ FullSuccess
    /\ exit_code = 0

----------------------------------------------------------------------------
(* C8: check_sign_status always returns a boolean to perform_checkin,      *)
(* never an exception: false when the request failed (retries used up or   *)
(* body rejected), when data is not an object and when isSigIn is missing; *)
(* true only for a validated envelope whose data.isSigIn is true.          *)
C8_Step ==
    pc = "check_sign_status" =>
        /\ pc' = "perform_checkin_status"
        /\ ret'.kind = "value"
        /\ ret'.value \in {"True", "False"}
        /\ (ret.kind = "exc"
            \/ (ret.kind = "ApiResponse"
                /\ (ret.data.kind # "dict" \/ ret.data.isSigIn = "absent")))
              => ret'.value = "False"
        /\ ret'.value = "True"
              => (ret.kind = "ApiResponse" /\ ret.data.kind = "dict"
                  /\ ret.data.isSigIn = "True")

C8_StatusNeverRaises == [][C8_Step]_vars

(* the status request used up its retries and check_sign_status returned   *)
(* false                                                                   *)
C8_Witness ==
    /\ pc = "perform_checkin_status"
    /\ ret.kind = "value"
    /\ ret.value = "False"
    /\ Len(AttemptsOf("init_sign_check")) = 3
    /\ ~AttemptsOf("init_sign_check")[3].ok

----------------------------------------------------------------------------
(* the status check of the run failed: its request used up its retries, or *)
(* its answer was rejected (by the envelope validation or as malformed     *)
(* data)                                                                   *)
StatusCheckFailed ==
    /\ Len(AttemptsOf("init_sign_check")) >= 1
    /\ \/ ~AttemptsOf("init_sign_check")[Len(AttemptsOf("init_sign_check"))].ok
       \/ \E i \in 1..Len(exceptions) : exceptions[i].type = "ValidationException"

(* C9 as claimed: a run whose status check failed and whose check-in and   *)
(* community sign-in both answered success true raises no aggregate error  *)
(* and exits 0.                                                            *)
C9_StatusFailureRecovered ==
    (pc = "exit" /\ ClientBuilt /\ StatusCheckFailed
        /\ ResultOf("daily_checkin") = sign_actions[1].success /\ UserOk)
        => (exit_code = 0 /\ ret = NONE)

----------------------------------------------------------------------------
(* the configuration C10 calls invalid: TOKEN unset or empty, or MODE      *)
(* outside the three modes                                                 *)
ConfigInvalid == EnvInvalid \/ env.TOKEN = ""

(* C10: with such a configuration no HTTP attempt is made and no           *)
(* notification is handed to a back-end in any state of the run, the run   *)
(* never gets past the construction of the client, and it ends with exit   *)
(* code 1.                                                                 *)
C10_InvalidConfigNoNetwork ==
    ConfigInvalid =>
        /\ http_log = << >>
        /\ notifications = << >>
        /\ pc \in {"parse_env_vars", "client_init", "exit"}
        /\ pc = "exit" => exit_code = 1

(* the empty token: parsed, rejected by the constructor, exit 1 *)
C10_Witness ==
    /\ pc = "exit"
    /\ env.TOKEN = ""
    /\ env.MODE = "bark"
    /\ exit_code = 1
    /\ http_log = << >>

----------------------------------------------------------------------------
(* a handler call that did not deliver the message *)
NotDelivered(n) == n.outcome \in {"skipped", "token_failed", "send_failed", "failed", "raised"}

(* C11: the exit code does not depend on what the notification handler     *)
(* did: the step of main that dispatches the notification ends with exit   *)
(* code 0 on the success path and 1 on the failure path for every outcome  *)
(* of the handler, and a finished run's exit code is decided by the error  *)
(* list alone, so a run without recorded error exits 0 also when the       *)
(* delivery failed or raised.                                              *)
C11_DispatchStep ==
    /\ pc = "main_notify" => (pc' = "exit" /\ exit_code' = 0)
    /\ pc = "main_except" => (pc' = "exit" /\ exit_code' = 1)

C11_ExitIgnoresDelivery ==
    (pc = "exit" /\ ClientBuilt) =>
        /\ exit_code = IF exceptions = << >> THEN 0 ELSE 1
        /\ \A i \in 1..Len(notifications) :
              (NotDelivered(notifications[i]) /\ FullSuccess /\ exceptions = << >>)
                  => exit_code = 0

C11_NotificationBestEffort ==
    /\ [][C11_DispatchStep]_vars
    /\ []C11_ExitIgnoresDelivery

(* all actions succeeded, the chat-webhook handler failed to send, exit 0 *)
C11_Witness ==
    /\ pc = "exit"
    /\ FullSuccess
    /\ Len(notifications) = 1
    /\ notifications[1].mode = "wechatWorkApp"
    /\ notifications[1].outcome = "send_failed"
    /\ exit_code = 0

(* the same with a handler that raised *)
C11_WitnessRaised ==
    /\ pc = "exit"
    /\ FullSuccess
    /\ Len(notifications) = 1
    /\ notifications[1].outcome = "raised"
    /\ exit_code = 0

----------------------------------------------------------------------------
(* what an endpoint answered to the run's request: the answer of its last  *)
(* attempt, "none" when it was never asked                                 *)
AnswerTo(endpoint) ==
    IF Len(AttemptsOf(endpoint)) = 0 THEN "none"
    ELSE AttemptsOf(endpoint)[Len(AttemptsOf(endpoint))].answer

(* the role list answered with roles, the status check with isSigIn false, *)
(* the check-in and the community sign-in with success true                *)
HappyAnswers ==
    /\ AnswerTo("find_role_list") = "roles"
    /\ AnswerTo("init_sign_check") = "not_signed"
    /\ AnswerTo("sign_in") = "accepted"
    /\ AnswerTo("user_sign") = "accepted"

(* C12: with those answers the run records no error, the results are the   *)
(* two success strings in action order, the message handed to the notifier *)
(* carries them joined by ", ", and the process exits 0.                   *)
C12_HappyPath ==
    /\ (WorkflowOver /\ HappyAnswers) =>
          /\ exceptions = << >>
          /\ Summary(results) =
                << sign_actions[1].success, ", ", sign_actions[2].success >>
    /\ (pc = "exit" /\ HappyAnswers) =>
          /\ exit_code = 0
          /\ Len(notifications) = 1
          /\ notifications[1].message =
                << "%Y-%m-%d", " check-in results: ",
                   "daily check-in succeeded", ", ", "user sign-in succeeded" >>

(* the scenario run with one attempt per endpoint, ended *)
C12_Witness ==
    /\ pc = "exit"
    /\ HappyAnswers
    /\ Len(http_log) = 4
    /\ exit_code = 0
    /\ Len(notifications) = 1

----------------------------------------------------------------------------
(* the response an action got back has success == true *)
SuccessResponse == ret.kind = "ApiResponse" /\ ret.success = "True"

(* a body that is a valid envelope passes make_request without an error;   *)
(* _handle_sign_action, given a response with success true, stores the     *)
(* action's success string and appends nothing, whatever code, msg and     *)
(* data are                                                                *)
C13_Step ==
    /\ (pc = "make_request" /\ ret.kind = "response" /\ ret.body.shape = "envelope")
          => exceptions' = exceptions
    /\ (pc = "handle_sign_action" /\ SuccessResponse) =>
          /\ HasKey(results', sign_actions[action_idx].name)
          /\ Lookup(results', sign_actions[action_idx].name) =
                sign_actions[action_idx].success
          /\ exceptions' = exceptions

(* the outcome of an action whose endpoint answered success true *)
C13_Recorded ==
    WorkflowOver =>
        /\ AnswerTo("sign_in") = "accepted"
              => ResultOf("daily_checkin") = sign_actions[1].success
        /\ AnswerTo("user_sign") = "accepted"
              => ResultOf("user_signin") = sign_actions[2].success

(* C13: an action whose endpoint response has success == true gets that    *)
(* action's canned success string as its result, whatever the envelope's   *)
(* code, msg and data, and no error is appended for that response.         *)
C13_SuccessIsCanned ==
    /\ [][C13_Step]_vars
    /\ []C13_Recorded

(* the check-in was accepted and recorded without error, and the community *)
(* sign-in has come back with success true under code 400 and msg          *)
(* "rate limited"                                                          *)
C13_Witness ==
    /\ pc = "handle_sign_action"
    /\ action_idx = 2
    /\ AnswerTo("sign_in") = "accepted"
    /\ ResultOf("daily_checkin") = sign_actions[1].success
    /\ exceptions = << >>
    /\ SuccessResponse
    /\ ret.code = 400
    /\ ret.msg = "rate limited"

(* that response recorded: both results are success strings, no error *)
C13_WitnessRecorded ==
    /\ pc = "generate_report"
    /\ AnswerTo("sign_in") = "accepted"
    /\ AnswerTo("user_sign") = "accepted"
    /\ FullSuccess
    /\ exceptions = << >>

----------------------------------------------------------------------------
(* the line main logs when the workflow raised: f"签到流程失败: {str(e)}"     *)
FailureLine(e) == LogLine("ERROR", << "check-in workflow failed: " >> \o e.text)

(* the aggregation step: the summary is logged; the aggregate is raised    *)
(* exactly when errors were recorded, otherwise main goes on to notify     *)
C14_ReportStep ==
    pc = "generate_report" =>
        /\ log' = Append(log, ReportLine(results))
        /\ exceptions # << >> <=> pc' = "main_except"
        /\ exceptions = << >> <=> pc' = "main_notify"
        /\ exceptions # << >> => ret' = AggregateError(exceptions)

(* the notification of a run without error carries the joined summary *)
C14_NotifyStep ==
    (pc = "main_notify" /\ notification_handlers(mode) # {}) =>
        /\ Len(notifications') = 1
        /\ notifications'[1].message =
              << "%Y-%m-%d", " check-in results: " >> \o Join(Values(results), ", ")

(* when the aggregate has been raised the summary is already in the log;   *)
(* a run that built its client ends in failure exactly when errors were    *)
(* recorded, the summary line logged before the line of the aggregate      *)
C14_Order ==
    /\ pc = "main_except" =>
          /\ ret = AggregateError(exceptions)
          /\ log # << >>
          /\ log[Len(log)] = ReportLine(results)
    /\ (pc = "exit" /\ ClientBuilt) =>
          /\ exit_code = 1 <=> exceptions # << >>
          /\ exit_code = 1 =>
                \E i \in 1..Len(log) - 1 :
                    /\ log[i] = ReportLine(results)
                    /\ log[i + 1] = FailureLine(AggregateError(exceptions))

(* C14: after both actions the run fails with the aggregate error if and   *)
(* only if the error list is non-empty; the joined summary is logged       *)
(* before the aggregate is raised; with an empty list the run proceeds to  *)
(* notification with the joined summary.                                   *)
C14_AggregateIffErrors ==
    /\ [][C14_ReportStep /\ C14_NotifyStep]_vars
    /\ []C14_Order

(* a partial failure, ended: summary line, then the aggregate's line *)
C14_Witness ==
    /\ pc = "exit"
    /\ PartialFailure
    /\ exit_code = 1
    /\ \E i \in 1..Len(log) - 1 :
          /\ log[i] = ReportLine(results)
          /\ log[i + 1] = FailureLine(AggregateError(exceptions))

(* a run without error, ended: the summary went to the notifier *)
C14_WitnessNoError ==
    /\ pc = "exit"
    /\ exceptions = << >>
    /\ exit_code = 0
    /\ Len(notifications) = 1
    /\ notifications[1].message = notification_message(results)

----------------------------------------------------------------------------
(* the answers with which an operation of the run fails: the request used  *)
(* up its retries, the body was not a valid envelope, the role list was    *)
(* empty or held an item GameInfo rejects, the status data was no object,  *)
(* the action was answered without success true                            *)
FailingAnswers == {"error", "invalid", "no_roles", "bad_roles", "malformed", "rejected"}

(* the operations of the run that failed, one per endpoint asked *)
FailedOperations == { e \in API_ENDPOINTS : AnswerTo(e) \in FailingAnswers }

(* C15: each error of a run is recorded exactly once: at aggregation the   *)
(* number of entries of the error list (the number the aggregate error     *)
(* lists) equals the number of distinct failing operations of the run.     *)
C15_RecordedOnce ==
    WorkflowOver => Len(exceptions) = Cardinality(FailedOperations)

(* the claim's own example: the community sign-in request alone fails,     *)
(* having used up its retries, and yields one entry                        *)
C15_OneEntryPerFailedRequest ==
    (WorkflowOver /\ FailedOperations = {"user_sign"} /\ AnswerTo("user_sign") = "error")
        => Len(exceptions) = 1

----------------------------------------------------------------------------
(* the place of an endpoint in the order role list, sign-in status,        *)
(* check-in, community sign-in                                             *)
Rank(endpoint) ==
    CASE endpoint = "find_role_list" -> 1
      [] endpoint = "init_sign_check" -> 2
      [] endpoint = "sign_in" -> 3
      [] endpoint = "user_sign" -> 4

Asked(endpoint) == AttemptsOf(endpoint) # << >>

(* the attempts on an endpoint are those of one call of                    *)
(* _request_with_retry: at most MAX_RETRIES, none after a response         *)
OneLogicalRequest(endpoint) ==
    /\ Len(AttemptsOf(endpoint)) <= MAX_RETRIES
    /\ \A i \in 1..Len(AttemptsOf(endpoint)) - 1 : ~AttemptsOf(endpoint)[i].ok

(* the requests made so far are in the fixed order, each endpoint asked    *)
(* only after what it depends on                                           *)
C16_Order ==
    /\ \A i, j \in 1..Len(http_log) :
          i < j => Rank(http_log[i].endpoint) <= Rank(http_log[j].endpoint)
    /\ Asked("init_sign_check") => AnswerTo("find_role_list") = "roles"
    /\ Asked("sign_in") =>
          /\ Asked("init_sign_check")
          /\ AnswerTo("init_sign_check") # "signed"
          /\ AttemptsOf("init_sign_check")[Len(AttemptsOf("init_sign_check"))].ok
                \/ Len(AttemptsOf("init_sign_check")) = MAX_RETRIES
    /\ Asked("user_sign") =>
          /\ HasKey(results, "daily_checkin")
          /\ action_idx >= 2
    /\ OneLogicalRequest("find_role_list")
    /\ WorkflowOver => Asked("find_role_list")

(* the check-in request is issued by perform_checkin with the value        *)
(* check_sign_status returned in hand, and that value is False             *)
C16_CheckinStep ==
    (req.kind # "request" /\ req'.kind = "request" /\ req'.endpoint = "sign_in") =>
        /\ pc = "perform_checkin_status"
        /\ ret = [kind |-> "value", value |-> "False"]

(* C16: the endpoints are requested in the order role list, sign-in        *)
(* status, check-in, community sign-in; the status endpoint only after a   *)
(* role-list response with at least one role, the check-in endpoint only   *)
(* after the status check returned false, the community sign-in only after *)
(* the daily check-in action finished; the role list is fetched by exactly *)
(* one logical request per run.                                            *)
C16_RequestOrder ==
    /\ [][C16_CheckinStep]_vars
    /\ []C16_Order

(* a finished run that asked all four endpoints, the role list twice       *)
(* (one failed attempt, then the response)                                 *)
C16_Witness ==
    /\ pc = "exit"
    /\ Len(http_log) = 5
    /\ Len(AttemptsOf("find_role_list")) = 2
    /\ Asked("init_sign_check") /\ Asked("sign_in") /\ Asked("user_sign")
    /\ http_log[5].endpoint = "user_sign"

----------------------------------------------------------------------------
(* the role list came back as a valid envelope whose data is null or an    *)
(* empty list                                                              *)
NoRoles == AnswerTo("find_role_list") = "no_roles"

(* the times e is in the error list *)
Occurrences(excs, e) == Cardinality({ i \in 1..Len(excs) : excs[i] = e })

(* C17: when the role list is empty or absent the daily check-in fails     *)
(* with the "no role found" error: the status and the check-in endpoint    *)
(* are not requested, daily_checkin gets its failure string, the community *)
(* sign-in is still attempted, and the run ends with the aggregate error   *)
(* and exit code 1.                                                        *)
C17_NoRoleFound ==
    /\ NoRoles => (~Asked("init_sign_check") /\ ~Asked("sign_in"))
    /\ (NoRoles /\ WorkflowOver) =>
          /\ DailyFailed
          /\ Occurrences(exceptions, NoRoleFound) = 1
          /\ Asked("user_sign")
          /\ HasKey(results, "user_signin")
    /\ (NoRoles /\ pc = "main_except") => ret = AggregateError(exceptions)
    /\ (NoRoles /\ pc = "exit") =>
          /\ exit_code = 1
          /\ \E i \in 1..Len(log) : log[i] = FailureLine(AggregateError(exceptions))

(* an empty role list, the community sign-in accepted, the run ended *)
C17_Witness ==
    /\ pc = "exit"
    /\ NoRoles
    /\ exceptions = << NoRoleFound >>
    /\ DailyFailed
    /\ UserOk
    /\ exit_code = 1

----------------------------------------------------------------------------
(* the outcome strings of an action *)
Outcomes(a) ==
    {a.success, a.failure} \cup
    (IF a.name = "daily_checkin" THEN {ALREADY_SIGNED} ELSE {})

(* at aggregation and after, results holds daily_checkin then user_signin, *)
(* each with one of its action's outcome strings                           *)
C18_TwoOutcomes ==
    WorkflowOver =>
        /\ Len(results) = Len(sign_actions)
        /\ \A i \in 1..Len(sign_actions) :
              /\ results[i].key = sign_actions[i].name
              /\ results[i].value \in Outcomes(sign_actions[i])

(* results only grows, by one key at a time that was not there, and what   *)
(* is recorded stays as it is; an action that ends has its outcome         *)
(* recorded                                                                *)
C18_WriteOnce ==
    /\ Len(results') >= Len(results)
    /\ Len(results') <= Len(results) + 1
    /\ \A i \in 1..Len(results) : results'[i] = results[i]
    /\ Len(results') = Len(results) + 1 => ~HasKey(results, results'[Len(results')].key)
    /\ action_idx' # action_idx =>
          /\ action_idx' = action_idx + 1
          /\ HasKey(results', sign_actions[action_idx].name)

(* C18: once both actions have run, results has exactly the keys           *)
(* daily_checkin and user_signin, in that order, each written once with    *)
(* one of its action's outcome strings; no action ends without an outcome  *)
(* and no recorded outcome is overwritten.                                 *)
C18_ResultsComplete ==
    /\ [][C18_WriteOnce]_vars
    /\ []C18_TwoOutcomes

(* aggregation reached with "already signed in" and a failed community     *)
(* sign-in                                                                 *)
C18_Witness ==
    /\ pc = "generate_report"
    /\ results = << [key |-> "daily_checkin", value |-> ALREADY_SIGNED],
                    [key |-> "user_signin", value |-> sign_actions[2].failure] >>

----------------------------------------------------------------------------
(* a notification is handed to a handler only by main, past the report *)
C19_DispatchStep ==
    notifications' # notifications =>
        /\ pc \in {"main_notify", "main_except"}
        /\ Len(notifications') = Len(notifications) + 1

(* at most one dispatch; once made, both actions have finished, the        *)
(* community sign-in was attempted and the report was logged; a run that   *)
(* built its client has made its dispatch when it ends                     *)
C19_Dispatched ==
    /\ Len(notifications) <= 1
    /\ notifications # << >> =>
          /\ pc = "exit"
          /\ Asked("user_sign")
          /\ HasKey(results, "daily_checkin") /\ HasKey(results, "user_signin")
          /\ \E i \in 1..Len(log) : log[i] = ReportLine(results)
    /\ (pc = "exit" /\ ClientBuilt) => Len(notifications) = 1

(* C19: a run with valid configuration and a non-empty token makes exactly *)
(* one notification dispatch, after both actions have finished and the     *)
(* report has been generated; never two, never one before the community    *)
(* sign-in has been attempted.                                             *)
C19_OneDispatch ==
    /\ [][C19_DispatchStep]_vars
    /\ []C19_Dispatched

(* a failed run ended: its one dispatch, the failure notice, follows a     *)
(* community sign-in that used up its retries                              *)
C19_Witness ==
    /\ pc = "exit"
    /\ ClientBuilt
    /\ Len(AttemptsOf("user_sign")) = MAX_RETRIES
    /\ AnswerTo("user_sign") = "error"
    /\ Len(notifications) = 1
    /\ notifications[1].message = << FAILURE_NOTICE >>

(* a run without error ended: its one dispatch is the summary *)
C19_WitnessSummary ==
    /\ pc = "exit"
    /\ ClientBuilt
    /\ exceptions = << >>
    /\ Len(notifications) = 1
    /\ notifications[1].mode = "console"

----------------------------------------------------------------------------
(* retries happen inside _request_with_retry only: every endpoint is asked *)
(* by one logical request of at most MAX_RETRIES attempts, so a run makes  *)
(* at most MAX_RETRIES attempts per endpoint and 4 * MAX_RETRIES in all    *)
C20_AttemptBudget ==
    /\ \A e \in API_ENDPOINTS : OneLogicalRequest(e)
    /\ Len(http_log) <= Cardinality(API_ENDPOINTS) * MAX_RETRIES

(* no action is run again: the loop index only moves forward *)
C20_NoRerun == [][action_idx' >= action_idx]_vars

(* every run reaches the point where main hands over to the notifier *)
C20_WorkflowEnds == <>(pc \in {"main_notify", "main_except", "exit"})

(* a run that used every attempt it has: MAX_RETRIES on each endpoint *)
C20_WitnessBudget ==
    /\ WorkflowOver
    /\ \A e \in API_ENDPOINTS : Len(AttemptsOf(e)) = MAX_RETRIES
    /\ Len(http_log) = Cardinality(API_ENDPOINTS) * MAX_RETRIES

(* C20: every run terminates (reaches process exit) for every behaviour of *)
(* the remote endpoints: retries happen only inside the HTTP layer, no     *)
(* action is re-run, and a run makes at most 3 HTTP attempts per endpoint, *)
(* at most 12 in all.                                                      *)
C20_Terminates ==
    /\ <>(pc = "exit")
    /\ []C20_AttemptBudget

====
